---- MODULE Spec2Model ----
(***************************************************************************)
(* Task lifecycle controller, chunked import and raw asset retrieval of    *)
(* src/app/api/tasks.py, as a state machine.  One action per request       *)
(* handler; the worker that consumes the queue is the external pipeline.   *)
(***************************************************************************)
EXTENDS Integers, Sequences, FiniteSets, TLC

VARIABLES tasks, storage, nextId, queue, tmp, sess, last, writers, txn

vars == <<tasks, storage, nextId, queue, tmp, sess, last, writers, txn>>

(***************************************************************************)
(* Bounds of the model.                                                    *)
(***************************************************************************)
MaxTasks == 1       \* task rows made by create and import
MaxCopies == 1      \* task rows made by duplicate
MaxQueue == 1       \* ids waiting on the worker queue
MaxImages == 2      \* images held by one task, and files in one request
MaxFileLen == 2     \* bytes in one upload temp file
MaxPathLen == 2     \* segments in a requested asset path
MaxWriters == 2     \* chunk requests being served at the same time
MaxSizeDelta == 5   \* bytes around the streaming threshold a file size is off by

(***************************************************************************)
(* Values.                                                                 *)
(***************************************************************************)
Projects == {"p1", "p2"}             \* projects the caller may change
ProjectPks == Projects \cup {"px"}   \* "px": no such project for the caller
TaskIds == 1..(MaxTasks + MaxCopies)
Absent == "absent"

\* the upload session the reassembly claims follow: the original file cut
\* into one-byte chunks, chunk i carrying RefChunks[i + 1]
RefChunks == <<(<<1>>), (<<2>>)>>
NChunks == Len(RefChunks)
Bodies == {RefChunks[i] : i \in 1..NChunks}

\* session ids as the client sends them, one character per element
Uuids == {<<"a">>, <<"a", "/">>, <<"b">>}
SafeChars == {"a", "b", "0", "-"}      \* of [0-9a-zA-Z-]

\* a file on disk: absent, or present with its bytes
NoFile == [exists |-> FALSE, data |-> <<>>]
File(bytes) == [exists |-> TRUE, data |-> bytes]

\* a request parameter as the client sent it: missing, an integer literal,
\* or text that is no integer literal
NoParam == [kind |-> "absent", val |-> 0]
IntParam(v) == [kind |-> "int", val |-> v]
TextParam == [kind |-> "text", val |-> 0]

\* the fields a request may carry for the serializer
NoData ==
    [partial |-> Absent, project |-> Absent, status |-> Absent,
     resize_to |-> FALSE, valid |-> TRUE]

EmptyStore == [images |-> 0, archive |-> NoFile]

\* the requests being served inside the chunk-writing lines of the import
\* handler: where each one is, the temp file it names, its chunk index, the
\* bytes it still has to write, and whether its descriptor still is the file
\* of that name
\* the transaction.atomic() block a create or import request is in: not in
\* one, row written, or row written and id handed to the queue; the row is
\* not in tasks until the block is left
NoTxn == [pc |-> "none", op |-> "", id |-> 0, row |-> <<>>]

Writers == 1..MaxWriters
IdleWriter == [pc |-> "idle", key |-> <<>>, index |-> 0, rest |-> <<>>, fd |-> "none"]

\* what a handler answers: the operation, the outcome and its detail message,
\* the task id it acted on, the number of ids it put on the worker queue, and
\* what the claims need of the request
Resp(op, res, detail, pk, enq, req) ==
    [op |-> op, res |-> res, detail |-> detail, pk |-> pk, enq |-> enq, req |-> req]

(***************************************************************************)
(* Collaborators outside src/ (app.api.common, app.models.task, worker).   *)
(***************************************************************************)
\* get_and_check_project: NotFound unless the caller may act on the project
ProjectOk(project_pk) == project_pk \in Projects

\* models.Task.objects.create(project=..., pending_action=...): field defaults
NewTask(project, pending_action) ==
    [project |-> project, pending_action |-> pending_action, status |-> "QUEUED",
     partial |-> FALSE, images_count |-> 0, size |-> 0, last_error |-> "NONE",
     session |-> <<>>]

\* task.handle_images_upload(files): the files join the task's images on disk
HandleImagesUpload(store, nfiles) == [store EXCEPT !.images = @ + nfiles]

\* len(task.scan_images())
ScanImages(store) == store.images

\* task.update_size(): size of what the task holds on disk
UpdateSize(task, store) ==
    [task EXCEPT !.size = store.images + Len(store.archive.data)]

(***************************************************************************)
(* TaskSerializer (tasks.py 41-80).                                        *)
(***************************************************************************)
\* a serializer that accepts every field value
IsValidAlways(data) == TRUE

\* serializer.is_valid(raise_exception=True)
IsValid(data) == data.valid

\* a serializer whose read_only_fields leave out status
SerializerSaveStatus(task, data) ==
    [task EXCEPT !.partial = IF data.partial = Absent THEN @ ELSE data.partial = "true",
                 !.project = IF data.project = Absent THEN @ ELSE data.project,
                 !.status = IF data.status = Absent THEN @ ELSE data.status]

\* serializer.save(): writable fields present in the data are written; status,
\* last_error, pending_action, size are read-only
SerializerSave(task, data) ==
    [task EXCEPT !.partial = IF data.partial = Absent THEN @ ELSE data.partial = "true",
                 !.project = IF data.project = Absent THEN @ ELSE data.project]

\* request.data.get('partial') is truthy
WantsPartial(data) == data.partial # Absent

\* pending_actions.RESIZE if 'resize_to' in request.data else None
InitialAction(data) == IF data.resize_to THEN "RESIZE" ELSE "NONE"

(***************************************************************************)
(* The worker queue: worker_tasks.process_task.delay(task.id).             *)
(***************************************************************************)
Delay(q, id) == Append(q, id)

\* a lookup by id alone, whatever the project
TaskExistsAnywhere(pk, project_pk) == pk \in DOMAIN tasks

\* self.queryset.get(pk=pk, project=project_pk) finds a row
TaskExists(pk, project_pk) == pk \in DOMAIN tasks /\ tasks[pk].project = project_pk

(***************************************************************************)
(* Chunked upload pieces of TaskAssetsImport.post (tasks.py 425-456).      *)
(***************************************************************************)
\* line 440: re.sub('[^0-9a-zA-Z-]+', "", uuid)
Sanitize(uuid) == SelectSeq(uuid, LAMBDA c : c \in SafeChars)

Keys == {Sanitize(u) : u \in Uuids}

\* lines 435-439: int() raises ValueError on text that is no integer literal
ParsesAsInt(p) == p.kind = "int"

\* a handler without lines 443-444 would keep the old temp file
KeepOnFirstChunk(f, chunk_index) == f

\* lines 443-444: os.unlink when the temp file exists and chunk_index == 0
UnlinkOnFirstChunk(f, chunk_index) ==
    IF f.exists /\ chunk_index = 0 THEN NoFile ELSE f

\* line 446: open(tmp_upload_file, 'ab') creates the file when it is missing
OpenAppend(f) == IF f.exists THEN f ELSE File(<<>>)

\* lines 446-453: the file is open in append mode (O_APPEND), so the bytes
\* land at the end of the file wherever fd.seek(byte_offset) left the position
SeekAndWrite(f, byte_offset, body) == File(f.data \o body)

\* line 455
MoreChunksExpected(chunk_index, total_chunk_count) ==
    chunk_index + 1 < total_chunk_count

\* line 419
NeedsOneFile(url, nfiles) == ~url /\ nfiles # 1

\* a handler without the check of line 422
UrlAndFileAllowed(url, nfiles) == FALSE

\* line 422
UrlAndFile(url, nfiles) == url /\ nfiles > 0

\* line 431
IsChunked(nfiles, ci, uuid, tc) ==
    nfiles > 0 /\ ci.kind # "absent" /\ uuid # <<>> /\ tc.kind # "absent"

(***************************************************************************)
(* History of each upload session, kept beside the program state: which    *)
(* chunks of the reference session have reached the temp file, and whether *)
(* every delivery so far was one of them, each once, at its own offset.    *)
(***************************************************************************)
NewSession == [ok |-> TRUE, sent |-> {}]
BrokenSession == [ok |-> FALSE, sent |-> {}]

RECURSIVE OffsetOf(_)
OffsetOf(i) == IF i = 0 THEN 0 ELSE OffsetOf(i - 1) + Len(RefChunks[i])

RECURSIVE Concat(_, _)
Concat(chunks, n) == IF n = 0 THEN <<>> ELSE Concat(chunks, n - 1) \o chunks[n]

Original == Concat(RefChunks, NChunks)

IsRefDelivery(s, index, total, offset, body) ==
    /\ s.ok
    /\ total = NChunks
    /\ index \in 0..(NChunks - 1)
    /\ index \notin s.sent
    /\ offset = OffsetOf(index)
    /\ body = RefChunks[index + 1]

Delivered(s, index, total, offset, body) ==
    IF IsRefDelivery(s, index, total, offset, body)
    THEN [s EXCEPT !.sent = @ \cup {index}]
    ELSE BrokenSession

Init ==
    /\ tasks = [t \in {} |-> NewTask("p1", "NONE")]
    /\ storage = [t \in TaskIds |-> EmptyStore]
    /\ nextId = 1
    /\ queue = <<>>
    /\ tmp = [k \in Keys |-> NoFile]
    /\ sess = [k \in Keys |-> NewSession]
    /\ last = Resp("init", "none", "", 0, 0, <<>>)
    /\ writers = [w \in Writers |-> IdleWriter]
    /\ txn = NoTxn

(***************************************************************************)
(* TaskViewSet (tasks.py 82-296).  Every handler leaves its response in    *)
(* last.                                                                   *)
(***************************************************************************)
\* a handler that raises before it has written anything
Raise(op, res, detail, pk, req) ==
    /\ last' = Resp(op, res, detail, pk, 0, req)
    /\ UNCHANGED <<tasks, storage, nextId, queue, tmp, sess>>

\* set_pending_action without line 116
PendingActionKeepsError(task, pending_action) ==
    [task EXCEPT !.pending_action = pending_action, !.partial = FALSE]

\* set_pending_action, lines 114-116: the fields written before task.save()
PendingActionFields(task, pending_action) ==
    [task EXCEPT !.pending_action = pending_action,
                 !.partial = FALSE,
                 !.last_error = "NONE"]

\* set_pending_action, lines 107-122
SetPendingAction(op, pending_action, pk, project_pk) ==
    IF ~ProjectOk(project_pk) \/ ~TaskExists(pk, project_pk)
    THEN Raise(op, "NotFound", "Not found.", pk, <<>>)
    ELSE /\ Len(queue) < MaxQueue
         /\ tasks' = [tasks EXCEPT ![pk] = PendingActionFields(@, pending_action)]
         /\ queue' = Delay(queue, pk)
         /\ last' = Resp(op, "ok", "", pk, 1, <<tasks[pk].last_error>>)
         /\ UNCHANGED <<storage, nextId, tmp, sess>>

\* lines 124-126
Cancel(pk, project_pk) == SetPendingAction("cancel", "CANCEL", pk, project_pk)

\* lines 128-130
Restart(pk, project_pk) == SetPendingAction("restart", "RESTART", pk, project_pk)

\* lines 132-134
Remove(pk, project_pk) == SetPendingAction("remove", "REMOVE", pk, project_pk)

\* a commit without line 182
CommitKeepsPartial(task, store) ==
    [task EXCEPT !.images_count = ScanImages(store)]

\* commit, lines 182-183: the in-memory task before the image check
CommitFields(task, store) ==
    [task EXCEPT !.partial = FALSE, !.images_count = ScanImages(store)]

\* a commit that accepts a task without images
TooFewNever(task) == task.images_count < 0

\* commit, line 185
TooFewToCommit(task) == task.images_count < 1

\* commit, lines 171-193
Commit(pk, project_pk) ==
    IF ~ProjectOk(project_pk) \/ ~TaskExists(pk, project_pk)
    THEN Raise("commit", "NotFound", "Not found.", pk, <<>>)
    ELSE LET task == CommitFields(tasks[pk], storage[pk]) IN
         IF TooFewToCommit(task)
         THEN Raise("commit", "ValidationError",
                    "You need to upload at least 1 file before commit", pk, <<>>)
         ELSE /\ Len(queue) < MaxQueue
              /\ tasks' = [tasks EXCEPT ![pk] = UpdateSize(task, storage[pk])]
              /\ queue' = Delay(queue, pk)
              /\ last' = Resp("commit", "ok", "", pk, 1, <<tasks[pk].partial>>)
              /\ UNCHANGED <<storage, nextId, tmp, sess>>

\* upload, lines 195-218
Upload(pk, project_pk, data, nfiles) ==
    LET req == [nfiles |-> nfiles, valid |-> IsValid(data)] IN
    IF ~ProjectOk(project_pk) \/ ~TaskExists(pk, project_pk)
    THEN Raise("upload", "NotFound", "Not found.", pk, req)
    ELSE IF nfiles = 0
    THEN Raise("upload", "ValidationError", "No files uploaded", pk, req)
    ELSE /\ storage[pk].images + nfiles <= MaxImages
         /\ LET store == HandleImagesUpload(storage[pk], nfiles)
                task == [tasks[pk] EXCEPT !.images_count = ScanImages(store)]
            IN /\ storage' = [storage EXCEPT ![pk] = store]
               /\ IF ~IsValid(data)
                  THEN /\ last' = Resp("upload", "ValidationError", "fields", pk, 0, req)
                       /\ UNCHANGED tasks
                  ELSE /\ tasks' = [tasks EXCEPT ![pk] = SerializerSave(task, data)]
                       /\ last' = Resp("upload", "ok", "", pk, 0, req)
         /\ UNCHANGED <<nextId, queue, tmp, sess>>

\* a duplicate that hands the copy to the worker
DuplicateAndProcess(pk, project_pk, copied) ==
    IF ~ProjectOk(project_pk) \/ ~TaskExists(pk, project_pk)
    THEN Raise("duplicate", "NotFound", "Not found.", pk, <<>>)
    ELSE IF ~copied
    THEN Raise("duplicate", "error", "Cannot duplicate task", pk, <<>>)
    ELSE /\ nextId <= MaxTasks + MaxCopies
         /\ Len(queue) < MaxQueue
         /\ tasks' = tasks @@ (nextId :> tasks[pk])
         /\ storage' = [storage EXCEPT ![nextId] = storage[pk]]
         /\ nextId' = nextId + 1
         /\ queue' = Delay(queue, nextId)
         /\ last' = Resp("duplicate", "ok", "", nextId, 1, <<>>)
         /\ UNCHANGED <<tmp, sess>>

\* duplicate, lines 220-235; task.duplicate() gives a new row with a copy of
\* the assets, or False
Duplicate(pk, project_pk, copied) ==
    IF ~ProjectOk(project_pk) \/ ~TaskExists(pk, project_pk)
    THEN Raise("duplicate", "NotFound", "Not found.", pk, <<>>)
    ELSE IF ~copied
    THEN Raise("duplicate", "error", "Cannot duplicate task", pk, <<>>)
    ELSE /\ nextId <= MaxTasks + MaxCopies
         /\ tasks' = tasks @@ (nextId :> tasks[pk])
         /\ storage' = [storage EXCEPT ![nextId] = storage[pk]]
         /\ nextId' = nextId + 1
         /\ last' = Resp("duplicate", "ok", "", nextId, 0, <<>>)
         /\ UNCHANGED <<queue, tmp, sess>>

\* the threshold of commit used for create
TooFewToCreateOne(nfiles) == nfiles < 1

\* create, lines 251-252
TooFewToCreate(nfiles) == nfiles <= 1

\* create, lines 237-268
Create(project_pk, data, nfiles) ==
    LET req == [project_pk |-> project_pk, nfiles |-> nfiles,
                partial |-> WantsPartial(data), valid |-> IsValid(data)]
        task == NewTask(project_pk, InitialAction(data))
    IN
    IF ~ProjectOk(project_pk)
    THEN Raise("create", "NotFound", "Not found.", 0, req)
    ELSE IF WantsPartial(data)
    THEN \* the row of line 243 is written outside any transaction
         /\ nextId <= MaxTasks
         /\ nextId' = nextId + 1
         /\ IF ~IsValid(data)
            THEN /\ tasks' = tasks @@ (nextId :> task)
                 /\ last' = Resp("create", "ValidationError", "fields", nextId, 0, req)
            ELSE /\ tasks' = tasks @@ (nextId :> SerializerSave(task, data))
                 /\ last' = Resp("create", "ok", "", nextId, 0, req)
         /\ UNCHANGED <<storage, queue, tmp, sess>>
    ELSE IF TooFewToCreate(nfiles)
    THEN Raise("create", "ValidationError",
               "Cannot create task, you need at least 2 images", 0, req)
    ELSE \* transaction.atomic(): the row is rolled back when a step raises,
         \* the files already written to disk are not
         /\ nextId <= MaxTasks
         /\ nextId' = nextId + 1
         /\ LET store == HandleImagesUpload(storage[nextId], nfiles)
                counted == [task EXCEPT !.images_count = ScanImages(store)]
            IN /\ storage' = [storage EXCEPT ![nextId] = store]
               /\ IF ~IsValid(data)
                  THEN /\ last' = Resp("create", "ValidationError", "fields", nextId, 0, req)
                       /\ UNCHANGED <<tasks, queue>>
                  ELSE /\ Len(queue) < MaxQueue
                       /\ tasks' = tasks @@ (nextId :> SerializerSave(counted, data))
                       /\ queue' = Delay(queue, nextId)
                       /\ last' = Resp("create", "ok", "", nextId, 1, req)
         /\ UNCHANGED <<tmp, sess>>

\* an update that takes any project the request names
MayReassignAnywhere(data) == TRUE

\* update, lines 277-283: the caller may change the project the request names
MayReassign(data) == data.project = Absent \/ ProjectOk(data.project)

\* update and partial_update, lines 271-296
Update(pk, project_pk, data) ==
    IF ~ProjectOk(project_pk) \/ ~TaskExists(pk, project_pk)
    THEN Raise("update", "NotFound", "Not found.", pk, <<>>)
    ELSE IF ~MayReassign(data)
    THEN Raise("update", "PermissionDenied", "", pk, <<>>)
    ELSE IF ~IsValid(data)
    THEN Raise("update", "ValidationError", "fields", pk, <<>>)
    ELSE /\ Len(queue) < MaxQueue
         /\ tasks' = [tasks EXCEPT ![pk] = SerializerSave(@, data)]
         /\ queue' = Delay(queue, pk)
         /\ last' = Resp("update", "ok", "", pk, 1, <<>>)
         /\ UNCHANGED <<storage, nextId, tmp, sess>>

(***************************************************************************)
(* The worker: takes the next id off the queue and processes the task.     *)
(***************************************************************************)
WorkerResult(task, failed) ==
    IF task.pending_action = "CANCEL"
    THEN [task EXCEPT !.pending_action = "NONE", !.status = "CANCELED"]
    ELSE IF failed
    THEN [task EXCEPT !.pending_action = "NONE", !.status = "FAILED",
                      !.last_error = "error"]
    ELSE [task EXCEPT !.pending_action = "NONE", !.status = "COMPLETED"]

ProcessTask(failed) ==
    /\ queue # <<>>
    /\ queue' = Tail(queue)
    /\ LET id == Head(queue) IN
       /\ last' = Resp("worker", "done", "", id, 0, <<>>)
       /\ IF id \notin DOMAIN tasks \/ tasks[id].partial
          THEN UNCHANGED <<tasks, storage>>
          ELSE IF tasks[id].pending_action = "REMOVE"
          THEN /\ tasks' = [t \in DOMAIN tasks \ {id} |-> tasks[t]]
               /\ storage' = [storage EXCEPT ![id] = EmptyStore]
          ELSE /\ tasks' = [tasks EXCEPT ![id] = WorkerResult(@, failed)]
               /\ UNCHANGED storage
    /\ UNCHANGED <<nextId, tmp, sess>>

(***************************************************************************)
(* TaskAssetsImport.post (tasks.py 408-485).                               *)
(***************************************************************************)
\* a task created as Task.objects.create does by default, status QUEUED
ImportTaskQueued(project, key) ==
    [NewTask(project, "IMPORT") EXCEPT !.session = key]

\* lines 460-465
ImportTask(project, key) ==
    [NewTask(project, "IMPORT") EXCEPT !.status = "RUNNING", !.session = key]

\* lines 459-485: the task row, its archive and the enqueue
ReadyToImport(req, archive, key) ==
    /\ nextId <= MaxTasks
    /\ Len(queue) < MaxQueue
    /\ tasks' = tasks @@ (nextId :> ImportTask(req.project_pk, key))
    /\ storage' = [storage EXCEPT ![nextId].archive = archive]
    /\ nextId' = nextId + 1
    /\ queue' = Delay(queue, nextId)
    /\ last' = Resp("import", "created", "", nextId, 1, req)

ImportPost(project_pk, url, nfiles, body, uuid, ci, tc, bo) ==
    LET chunked == IsChunked(nfiles, ci, uuid, tc)
        key == Sanitize(uuid)
        byte_offset == IF bo.kind = "absent" THEN IntParam(0) ELSE bo
        req == [project_pk |-> project_pk, url |-> url, nfiles |-> nfiles,
                chunked |-> chunked,
                body |-> IF nfiles > 0 THEN body ELSE <<>>,
                uuid |-> IF chunked THEN uuid ELSE <<>>,
                key |-> IF chunked THEN key ELSE <<>>,
                index |-> ci, total |-> tc, offset |-> bo,
                stale |-> chunked /\ tmp[key].data # <<>>]
    IN
    IF ~ProjectOk(project_pk)
    THEN Raise("import", "NotFound", "Not found.", 0, req)
    ELSE IF NeedsOneFile(url, nfiles)
    THEN Raise("import", "ValidationError",
               "Cannot create task, you need to upload 1 file", 0, req)
    ELSE IF UrlAndFile(url, nfiles)
    THEN Raise("import", "ValidationError",
               "Cannot create task, either specify a URL or upload 1 file.", 0, req)
    ELSE IF chunked
    THEN IF ~(ParsesAsInt(ci) /\ ParsesAsInt(byte_offset) /\ ParsesAsInt(tc))
         THEN Raise("import", "ValidationError",
                    "Some parameters are not integers", 0, req)
         ELSE LET opened == OpenAppend(UnlinkOnFirstChunk(tmp[key], ci.val))
                  written == SeekAndWrite(opened, byte_offset.val, body)
              IN
              IF byte_offset.val < 0
              THEN \* fd.seek raises OSError after the file was opened
                   /\ tmp' = [tmp EXCEPT ![key] = opened]
                   /\ sess' = [sess EXCEPT ![key] = BrokenSession]
                   /\ last' = Resp("import", "ServerError", "", 0, 0, req)
                   /\ UNCHANGED <<tasks, storage, nextId, queue>>
              ELSE /\ Len(written.data) <= MaxFileLen
                   /\ sess' = [sess EXCEPT ![key] =
                          Delivered(@, ci.val, tc.val, byte_offset.val, body)]
                   /\ IF MoreChunksExpected(ci.val, tc.val)
                      THEN /\ tmp' = [tmp EXCEPT ![key] = written]
                           /\ last' = Resp("import", "uploaded", "", 0, 0, req)
                           /\ UNCHANGED <<tasks, storage, nextId, queue>>
                      ELSE \* line 480: shutil.move takes the temp file away
                           /\ tmp' = [tmp EXCEPT ![key] = NoFile]
                           /\ ReadyToImport(req, written, key)
    ELSE /\ ReadyToImport(req, IF nfiles > 0 THEN File(body) ELSE NoFile, <<>>)
         /\ UNCHANGED <<tmp, sess>>

(***************************************************************************)
(* The chunk-writing lines 441-456 of TaskAssetsImport.post one system     *)
(* call at a time, for requests served concurrently.  The handler takes no *)
(* lock: any request may run between two steps of another.                 *)
(***************************************************************************)
\* lines 431-441: the parameters are parsed and the temp file is named
WriterBegin(w, uuid, chunk_index, body) ==
    /\ writers[w].pc = "idle"
    /\ writers' = [writers EXCEPT ![w] =
           [pc |-> "unlink", key |-> Sanitize(uuid), index |-> chunk_index,
            rest |-> body, fd |-> "none"]]
    /\ UNCHANGED <<tasks, storage, nextId, queue, tmp, sess, last>>

\* lines 443-444: descriptors other requests hold on the unlinked file go on
\* writing to a file that has no name any more
WriterUnlink(w) ==
    LET me == writers[w]
        gone == tmp[me.key].exists /\ me.index = 0
    IN /\ me.pc = "unlink"
       /\ tmp' = [tmp EXCEPT ![me.key] = UnlinkOnFirstChunk(@, me.index)]
       /\ writers' = [v \in Writers |->
              IF v = w THEN [me EXCEPT !.pc = "open"]
              ELSE IF gone /\ writers[v].key = me.key /\ writers[v].fd = "named"
              THEN [writers[v] EXCEPT !.fd = "unnamed"]
              ELSE writers[v]]
       /\ UNCHANGED <<tasks, storage, nextId, queue, sess, last>>

\* lines 446-447
WriterOpen(w) ==
    LET me == writers[w] IN
    /\ me.pc = "open"
    /\ tmp' = [tmp EXCEPT ![me.key] = OpenAppend(@)]
    /\ writers' = [writers EXCEPT ![w] = [me EXCEPT !.pc = "write", !.fd = "named"]]
    /\ UNCHANGED <<tasks, storage, nextId, queue, sess, last>>

\* lines 449-450: one fd.write(chunk) of the loop over files[0].chunks()
WriterWrite(w) ==
    LET me == writers[w] IN
    /\ me.pc = "write"
    /\ me.rest # <<>>
    /\ Len(tmp[me.key].data) < MaxFileLen
    /\ tmp' = IF me.fd = "named"
              THEN [tmp EXCEPT ![me.key] = SeekAndWrite(@, 0, <<Head(me.rest)>>)]
              ELSE tmp
    /\ writers' = [writers EXCEPT ![w] = [me EXCEPT !.rest = Tail(@)]]
    /\ UNCHANGED <<tasks, storage, nextId, queue, sess, last>>

\* the with block ends and the request answers, lines 455-456
WriterClose(w) ==
    /\ writers[w].pc = "write"
    /\ writers[w].rest = <<>>
    /\ writers' = [writers EXCEPT ![w] = IdleWriter]
    /\ UNCHANGED <<tasks, storage, nextId, queue, tmp, sess, last>>

(***************************************************************************)
(* The transaction.atomic() blocks of create (tasks.py 254-266) and of the *)
(* import (tasks.py 459-482) one statement group at a time, with the       *)
(* worker running beside the request.  Rows written inside the block are   *)
(* in txn.row and reach tasks when the block is left.                      *)
(***************************************************************************)
\* create, lines 255-264: the row, the files and the accepted fields
TxnCreate(data, nfiles) ==
    /\ txn.pc = "none"
    /\ ~WantsPartial(data) /\ ~TooFewToCreate(nfiles) /\ IsValid(data)
    /\ nextId <= MaxTasks
    /\ LET store == HandleImagesUpload(storage[nextId], nfiles)
           task == [NewTask("p1", InitialAction(data))
                       EXCEPT !.images_count = ScanImages(store)]
       IN /\ storage' = [storage EXCEPT ![nextId] = store]
          /\ txn' = [pc |-> "open", op |-> "create", id |-> nextId,
                     row |-> SerializerSave(task, data)]
    /\ nextId' = nextId + 1
    /\ UNCHANGED <<tasks, queue, tmp, sess, last, writers>>

\* import, lines 460-480: the row and the archive
TxnImport(url, body) ==
    /\ txn.pc = "none"
    /\ nextId <= MaxTasks
    /\ storage' = [storage EXCEPT ![nextId].archive =
                      IF url THEN NoFile ELSE File(body)]
    /\ txn' = [pc |-> "open", op |-> "import", id |-> nextId,
               row |-> ImportTask("p1", <<>>)]
    /\ nextId' = nextId + 1
    /\ UNCHANGED <<tasks, queue, tmp, sess, last, writers>>

\* lines 266 and 482: process_task.delay(task.id), still inside the block
TxnDelay ==
    /\ txn.pc = "open"
    /\ Len(queue) < MaxQueue
    /\ queue' = Delay(queue, txn.id)
    /\ txn' = [txn EXCEPT !.pc = "enqueued"]
    /\ UNCHANGED <<tasks, storage, nextId, tmp, sess, last, writers>>

\* the block is left: the row is committed and the request answers
TxnCommit ==
    /\ txn.pc = "enqueued"
    /\ tasks' = tasks @@ (txn.id :> txn.row)
    /\ last' = Resp(txn.op, "ok", "", txn.id, 1, <<>>)
    /\ txn' = NoTxn
    /\ UNCHANGED <<storage, nextId, queue, tmp, sess, writers>>

(***************************************************************************)
(* TaskAssets.get (tasks.py 387-403) over a small file system: the task's  *)
(* asset root /task holds all.zip once an archive was imported and the     *)
(* directory odm; /passwd is a file outside the root.                      *)
(***************************************************************************)
Segments == {"..", "/", "all.zip", "odm", "passwd"}
AssetsRoot == <<"task">>

RECURSIVE PathsUpTo(_)
PathsUpTo(n) ==
    IF n = 0 THEN {<<>>}
    ELSE PathsUpTo(n - 1) \cup
         {Append(p, seg) : p \in {q \in PathsUpTo(n - 1) : Len(q) = n - 1},
                           seg \in Segments}

\* task.assets_path(p): os.path.join, where an absolute p drops the root
AssetsPath(p) == IF p # <<>> /\ p[1] = "/" THEN p ELSE AssetsRoot \o p

\* os.path.abspath: "." and empty segments go, ".." steps up, not above /
RECURSIVE AbsPath(_, _)
AbsPath(done, rest) ==
    IF rest = <<>> THEN done
    ELSE IF Head(rest) = "/" THEN AbsPath(done, Tail(rest))
    ELSE IF Head(rest) = ".."
    THEN AbsPath(IF done = <<>> THEN <<>> ELSE SubSeq(done, 1, Len(done) - 1),
                 Tail(rest))
    ELSE AbsPath(Append(done, Head(rest)), Tail(rest))

IsPrefix(a, b) == Len(a) <= Len(b) /\ SubSeq(b, 1, Len(a)) = a

\* app.security.path_traversal_check: SuspiciousFileOperation when the
\* canonical path is not contained in the canonical root
IsSuspicious(unsafe_path, known_safe_path) ==
    ~IsPrefix(AbsPath(<<>>, known_safe_path), AbsPath(<<>>, unsafe_path))

\* os.path.isdir / os.path.exists on the canonical path
IsDir(store, path) == path \in {<<>>, AssetsRoot, AssetsRoot \o <<"odm">>}

PathExists(store, path) ==
    \/ IsDir(store, path)
    \/ path = <<"passwd">>
    \/ path = AssetsRoot \o <<"all.zip">> /\ store.archive.exists

\* a handler that tells the caller the path was refused
AssetOutcomeTelling(store, unsafe_asset_path) ==
    IF IsSuspicious(AssetsPath(unsafe_asset_path), AssetsPath(<<>>))
    THEN [res |-> "PermissionDenied", detail |-> "Suspicious path"]
    ELSE LET asset_path == AbsPath(<<>>, AssetsPath(unsafe_asset_path)) IN
         IF ~PathExists(store, asset_path) \/ IsDir(store, asset_path)
         THEN [res |-> "NotFound", detail |-> "Asset does not exist"]
         ELSE [res |-> "file", detail |-> "inline"]

\* lines 395-403: what the handler answers once the task is found
AssetOutcome(store, unsafe_asset_path) ==
    IF IsSuspicious(AssetsPath(unsafe_asset_path), AssetsPath(<<>>))
    THEN [res |-> "NotFound", detail |-> "Asset does not exist"]
    ELSE LET asset_path == AbsPath(<<>>, AssetsPath(unsafe_asset_path)) IN
         IF ~PathExists(store, asset_path) \/ IsDir(store, asset_path)
         THEN [res |-> "NotFound", detail |-> "Asset does not exist"]
         ELSE [res |-> "file", detail |-> "inline"]

\* lines 387-403, with get_and_check_task of lines 303-313
TaskAssetsGet(pk, unsafe_asset_path) ==
    LET out == IF pk \notin DOMAIN tasks
               THEN [res |-> "NotFound", detail |-> "Not found."]
               ELSE AssetOutcome(storage[pk], unsafe_asset_path)
    IN Raise("assets", out.res, out.detail, pk, unsafe_asset_path)

(***************************************************************************)
(* download_file_response (tasks.py 316-340): how a single file is sent.   *)
(***************************************************************************)
\* line 325: 1e8
StreamThreshold == 100000000

\* request.GET.get('_force_stream', False) as a Python truth value: a
\* missing parameter and an empty string are false, any other string true
Truthy(force_stream) == force_stream \notin {Absent, ""}

\* a threshold that includes 1e8 itself
StreamFromThreshold(filesize, force_stream) ==
    filesize >= StreamThreshold \/ Truthy(force_stream)

\* line 325
Stream(filesize, force_stream) ==
    filesize > StreamThreshold \/ Truthy(force_stream)

\* lines 316-340: FileResponse when streaming, HttpResponse otherwise
DownloadFileResponse(filesize, force_stream, content_disposition) ==
    Raise("download",
          IF Stream(filesize, force_stream) THEN "streamed" ELSE "buffered",
          content_disposition, 0,
          [filesize |-> filesize, force_stream |-> force_stream])

(***************************************************************************)
(* Requests the clients make.                                              *)
(***************************************************************************)
\* a create: the project, the fields and the number of files
CreateRequests ==
    {<<"px", NoData, 2>>, <<"p1", [NoData EXCEPT !.partial = "false"], 0>>} \cup
    ({"p1"} \X [partial : {Absent, "true"}, project : {Absent}, status : {Absent},
                resize_to : BOOLEAN, valid : BOOLEAN] \X (0..MaxImages))

\* the task a request names and the project it names it in; the last id is
\* one only a copy can get
TaskRequests == ((1..MaxTasks) \X ProjectPks) \cup {<<MaxTasks + MaxCopies, "p1">>}

\* fields sent along with an upload and with an update
UploadData ==
    [partial : {Absent, "true"}, project : {Absent, "p2"}, status : {Absent},
     resize_to : {FALSE}, valid : {TRUE}] \cup {[NoData EXCEPT !.valid = FALSE]}

UpdateData ==
    [partial : {Absent, "true", "false"}, project : {Absent, "p2", "px"},
     status : {Absent}, resize_to : {FALSE}, valid : {TRUE}] \cup
    {[NoData EXCEPT !.status = "COMPLETED"], [NoData EXCEPT !.valid = FALSE]}

\* the paths an asset request may name
AssetPaths == PathsUpTo(MaxPathLen)

\* an import without chunk parameters: the project, a URL or not, the files
ImportRequests == {<<"px", TRUE, 0>>} \cup ({"p1"} \X BOOLEAN \X (0..MaxImages))

\* chunk parameters that are integers in range
ChunkRequests ==
    [body : Bodies, uuid : Uuids, ci : {IntParam(v) : v \in 0..NChunks},
     tc : {IntParam(v) : v \in 1..(NChunks + 1)},
     bo : {IntParam(v) : v \in 0..(NChunks - 1)}, nfiles : {1}, url : {FALSE}]

\* a first or second chunk of two with one thing wrong: a parameter missing,
\* not an integer or negative, no session id, a second file, a URL as well
OddValues == {NoParam, TextParam, IntParam(-1)}
PlainChunks ==
    [body : {RefChunks[1]}, uuid : {<<"a">>}, ci : {IntParam(0), IntParam(1)},
     tc : {IntParam(NChunks)}, bo : {IntParam(0)}, nfiles : {1}, url : {FALSE}]
OddChunkRequests ==
    UNION {{[r EXCEPT !.ci = v] : v \in OddValues} \cup
           {[r EXCEPT !.tc = v] : v \in OddValues \cup {IntParam(0)}} \cup
           {[r EXCEPT !.bo = v] : v \in OddValues} \cup
           {[r EXCEPT !.uuid = <<>>], [r EXCEPT !.nfiles = 2],
            [r EXCEPT !.url = TRUE], [r EXCEPT !.url = TRUE, !.nfiles = 0]}
           : r \in PlainChunks}

CreateStep == \E r \in CreateRequests : Create(r[1], r[2], r[3]) /\ UNCHANGED <<writers, txn>>

CommitStep == \E r \in TaskRequests : Commit(r[1], r[2]) /\ UNCHANGED <<writers, txn>>

UploadStep ==
    \E r \in TaskRequests, data \in UploadData, nfiles \in 0..1 :
        Upload(r[1], r[2], data, nfiles) /\ UNCHANGED <<writers, txn>>

DuplicateStep ==
    \E r \in TaskRequests, copied \in BOOLEAN : Duplicate(r[1], r[2], copied) /\ UNCHANGED <<writers, txn>>

UpdateStep == \E r \in TaskRequests, data \in UpdateData : Update(r[1], r[2], data) /\ UNCHANGED <<writers, txn>>

CancelStep == \E r \in TaskRequests : Cancel(r[1], r[2]) /\ UNCHANGED <<writers, txn>>

RestartStep == \E r \in TaskRequests : Restart(r[1], r[2]) /\ UNCHANGED <<writers, txn>>

RemoveStep == \E r \in TaskRequests : Remove(r[1], r[2]) /\ UNCHANGED <<writers, txn>>

WorkerStep == \E failed \in BOOLEAN : ProcessTask(failed) /\ UNCHANGED <<writers, txn>>

ImportStep ==
    \E r \in ImportRequests :
        ImportPost(r[1], r[2], r[3], RefChunks[1], <<>>, NoParam, NoParam, NoParam) /\ UNCHANGED <<writers, txn>>

ChunkStep ==
    \E r \in ChunkRequests :
        ImportPost("p1", r.url, r.nfiles, r.body, r.uuid, r.ci, r.tc, r.bo) /\ UNCHANGED <<writers, txn>>

OddChunkStep ==
    \E r \in OddChunkRequests :
        ImportPost("p1", r.url, r.nfiles, r.body, r.uuid, r.ci, r.tc, r.bo) /\ UNCHANGED <<writers, txn>>

AssetsStep ==
    \E pk \in (1..MaxTasks) \cup {MaxTasks + MaxCopies}, path \in AssetPaths :
        TaskAssetsGet(pk, path) /\ UNCHANGED <<writers, txn>>

\* sizes of the files sent and values of the _force_stream parameter
FileSizes ==
    {0, 1000, 150000000} \cup
    {StreamThreshold + d : d \in (0 - MaxSizeDelta)..MaxSizeDelta}
ForceValues == {Absent, "", "1", "false"}

DownloadStep ==
    \E filesize \in FileSizes, force_stream \in ForceValues,
       content_disposition \in {"attachment", "inline"} :
        DownloadFileResponse(filesize, force_stream, content_disposition) /\ UNCHANGED <<writers, txn>>

\* the lifecycle of one task: the controller and the worker
Next ==
    \/ CreateStep
    \/ CommitStep
    \/ UploadStep
    \/ UpdateStep
    \/ CancelStep
    \/ RestartStep
    \/ RemoveStep
    \/ ImportStep
    \/ WorkerStep

Spec == Init /\ [][Next]_vars

\* the import endpoint alone, chunked or not
NextUpload == ImportStep \/ ChunkStep \/ OddChunkStep

SpecUpload == Init /\ [][NextUpload]_vars

\* imports, the worker and raw asset requests
NextAssets == ImportStep \/ WorkerStep \/ AssetsStep

SpecAssets == Init /\ [][NextAssets]_vars

\* chunk requests served concurrently, one system call at a time
WriterBeginStep ==
    \E w \in Writers, uuid \in Uuids, chunk_index \in 0..(NChunks - 1),
       body \in Bodies \cup {Original} :
        WriterBegin(w, uuid, chunk_index, body) /\ UNCHANGED txn

WriterUnlinkStep == \E w \in Writers : WriterUnlink(w) /\ UNCHANGED txn

WriterOpenStep == \E w \in Writers : WriterOpen(w) /\ UNCHANGED txn

WriterWriteStep == \E w \in Writers : WriterWrite(w) /\ UNCHANGED txn

WriterCloseStep == \E w \in Writers : WriterClose(w) /\ UNCHANGED txn

NextWriters ==
    \/ WriterBeginStep
    \/ WriterUnlinkStep
    \/ WriterOpenStep
    \/ WriterWriteStep
    \/ WriterCloseStep

SpecWriters == Init /\ [][NextWriters]_vars

\* tasks, their uploads and their copies
NextCopy ==
    \/ CreateStep
    \/ UploadStep
    \/ DuplicateStep
    \/ WorkerStep

SpecCopy == Init /\ [][NextCopy]_vars

\* tasks and the edits of their fields
NextUpdate ==
    \/ CreateStep
    \/ UpdateStep
    \/ WorkerStep

SpecUpdate == Init /\ [][NextUpdate]_vars

\* a create or import inside its transaction, the worker beside it, and
\* the lifecycle requests that follow
TxnCreateStep ==
    \E resize_to \in BOOLEAN, nfiles \in 2..MaxImages :
        TxnCreate([NoData EXCEPT !.resize_to = resize_to], nfiles)

TxnImportStep == \E url \in BOOLEAN, body \in Bodies : TxnImport(url, body)

NextTxn ==
    \/ TxnCreateStep
    \/ TxnImportStep
    \/ TxnDelay
    \/ TxnCommit
    \/ WorkerStep
    \/ CancelStep
    \/ RestartStep
    \/ RemoveStep

SpecTxn == Init /\ [][NextTxn]_vars

\* single-file downloads
NextDownload == DownloadStep

SpecDownload == Init /\ [][NextDownload]_vars

(***************************************************************************)
(* Properties of the upload, lifecycle and asset handlers.                 *)
(***************************************************************************)
\* what a chunk request leaves in the file it wrote to: nothing of the old
\* content when it is chunk 0, the old content otherwise, then its own bytes
ChunkResult(req, before) ==
    (IF req.index = IntParam(0) THEN <<>> ELSE before.data) \o req.body

\* C1: once every chunk of a file has been delivered exactly once, each with
\* its own index, the total and its true byte offset, in whatever order, the
\* session's task holds an archive equal to the original file.
C1_ReassembledInAnyOrder ==
    \A k \in Keys :
        (sess[k].ok /\ sess[k].sent = 0..(NChunks - 1)) =>
            \E id \in DOMAIN tasks :
                /\ tasks[id].session = k
                /\ storage[id].archive = File(Original)

\* C2: whenever a task id is put on the queue, the task's row has
\* partial = false at the end of that request.
C2_EnqueuedNotPartial ==
    [][Len(queue') > Len(queue) =>
          LET id == queue'[Len(queue')] IN
          id \in DOMAIN tasks' /\ ~tasks'[id].partial]_vars

\* C3: a chunk with index 0 discards what earlier chunks of the same session
\* left in the temp file: afterwards the temp file, or the archive when that
\* chunk completes the upload, holds the bytes of that chunk only; any other
\* chunk adds its bytes to what was there.
C3_FirstChunkRestarts ==
    [][(/\ last'.op = "import"
        /\ last'.req.chunked
        /\ last'.res \in {"uploaded", "created"}) =>
          LET key == last'.req.key
              content == File(ChunkResult(last'.req, tmp[key]))
          IN IF last'.res = "uploaded"
             THEN tmp'[key] = content
             ELSE storage'[last'.pk].archive = content /\ tmp'[key] = NoFile]_vars

\* chunk 0 arrived for a session whose temp file held earlier bytes
C3_Witness ==
    /\ last.op = "import"
    /\ last.res = "uploaded"
    /\ last.req.stale
    /\ last.req.index = IntParam(0)
    /\ tmp[last.req.key] = File(last.req.body)

\* C4: in a project the caller may use, a full create with fewer than 2 files
\* is a validation error that leaves no task, no file and no queue entry; one
\* with 2 or more files and acceptable fields adds one task and puts its id
\* on the queue once.
C4_FullCreateNeedsTwoFiles ==
    [][(/\ last'.op = "create"
        /\ last'.req.project_pk \in Projects
        /\ ~last'.req.partial) =>
          IF last'.req.nfiles < 2
          THEN /\ last'.res = "ValidationError"
               /\ last'.detail = "Cannot create task, you need at least 2 images"
               /\ UNCHANGED <<tasks, storage, queue, nextId>>
          ELSE last'.req.valid =>
               /\ last'.res = "ok"
               /\ last'.pk \notin DOMAIN tasks
               /\ DOMAIN tasks' = DOMAIN tasks \cup {last'.pk}
               /\ tasks'[last'.pk].images_count = last'.req.nfiles
               /\ ~tasks'[last'.pk].partial
               /\ queue' = Append(queue, last'.pk)]_vars

\* a full create with exactly 2 files went through
C4_Witness ==
    /\ last.op = "create"
    /\ last.res = "ok"
    /\ ~last.req.partial
    /\ last.req.nfiles = 2
    /\ last.pk \in DOMAIN tasks
    /\ queue = <<last.pk>>

\* C5: commit on a task that has no images is a validation error, puts
\* nothing on the queue and leaves the task's row, partial and image count
\* included, as it was.
C5_CommitNeedsImages ==
    [][last'.op = "commit" =>
       \A r \in TaskRequests :
          (/\ r[1] \in DOMAIN tasks
           /\ tasks[r[1]].project = r[2]
           /\ storage[r[1]].images = 0
           /\ Commit(r[1], r[2])) =>
              /\ last'.res = "ValidationError"
              /\ last'.detail = "You need to upload at least 1 file before commit"
              /\ UNCHANGED <<tasks, storage, queue>>]_vars

\* commit was refused on a partial task without images
C5_Witness ==
    /\ last.op = "commit"
    /\ last.res = "ValidationError"
    /\ last.pk \in DOMAIN tasks
    /\ tasks[last.pk].partial
    /\ tasks[last.pk].images_count = 0
    /\ storage[last.pk].images = 0

\* C6: cancel, restart and remove on a task id that does not exist in the
\* named project are a not-found error; no task changes and nothing is put
\* on the queue.
C6_UnknownTaskNotFound ==
    [][last'.op \in {"cancel", "restart", "remove"} =>
          \A r \in TaskRequests :
              (/\ r[1] \notin DOMAIN tasks \/ tasks[r[1]].project # r[2]
               /\ Cancel(r[1], r[2]) \/ Restart(r[1], r[2]) \/ Remove(r[1], r[2])) =>
                  /\ last'.res = "NotFound"
                  /\ last'.enq = 0
                  /\ UNCHANGED <<tasks, storage, queue>>]_vars

\* remove was refused for a task that exists, named in a project it is not in
C6_Witness ==
    /\ last.op = "remove"
    /\ last.res = "NotFound"
    /\ last.pk \in DOMAIN tasks
    /\ queue = <<>>

\* C7: cancel, restart and remove on a task of the named project set the
\* matching pending action, set partial to false, clear last_error and put
\* the task on the queue; every request that changes the pending action of
\* an existing task leaves its last_error cleared.
C7_PendingActionSet ==
    [][/\ last'.op \in {"cancel", "restart", "remove"} =>
          \A r \in TaskRequests :
            \A a \in {"CANCEL", "RESTART", "REMOVE"} :
                (/\ r[1] \in DOMAIN tasks
                 /\ tasks[r[1]].project = r[2]
                 /\ r[2] \in Projects
                 /\ CASE a = "CANCEL" -> Cancel(r[1], r[2])
                      [] a = "RESTART" -> Restart(r[1], r[2])
                      [] a = "REMOVE" -> Remove(r[1], r[2])) =>
                    /\ tasks'[r[1]].pending_action = a
                    /\ ~tasks'[r[1]].partial
                    /\ tasks'[r[1]].last_error = "NONE"
                    /\ queue' = Append(queue, r[1])
       /\ last'.op # "worker" =>
            \A id \in DOMAIN tasks \cap DOMAIN tasks' :
                tasks'[id].pending_action # tasks[id].pending_action =>
                    tasks'[id].last_error = "NONE"]_vars

\* a task that had failed was restarted
C7_Witness ==
    /\ last.op = "restart"
    /\ last.res = "ok"
    /\ last.req = <<"error">>
    /\ tasks[last.pk].pending_action = "RESTART"
    /\ tasks[last.pk].last_error = "NONE"
    /\ queue = <<last.pk>>

\* C8: in a project the caller may use, an import request with both a URL and
\* a file, or with no URL and a number of files other than 1, is a validation
\* error; no task is created, nothing is written and nothing is put on the
\* queue.
C8_ImportInputsChecked ==
    [][(/\ last'.op = "import"
        /\ last'.req.project_pk \in Projects
        /\ \/ last'.req.url /\ last'.req.nfiles > 0
           \/ ~last'.req.url /\ last'.req.nfiles # 1) =>
          /\ last'.res = "ValidationError"
          /\ last'.enq = 0
          /\ UNCHANGED <<tasks, storage, tmp, queue, nextId>>]_vars

\* a request with a URL and a file as well was refused
C8_Witness ==
    /\ last.op = "import"
    /\ last.res = "ValidationError"
    /\ last.req.url
    /\ last.req.nfiles = 1
    /\ last.detail = "Cannot create task, either specify a URL or upload 1 file."

\* C9: an import with a URL, with one whole file, or with the last chunk of
\* a chunked upload succeeds; a successful import adds one task with pending
\* action IMPORT and status RUNNING, with the uploaded bytes as its archive
\* when a file was sent, and the task's id is on the queue in the same state
\* as the archive.
C9_ImportCreatesRunningTask ==
    [][last'.op = "import" =>
          /\ (/\ last'.req.project_pk \in Projects
              /\ last'.req.nfiles = (IF last'.req.url THEN 0 ELSE 1)
              /\ last'.req.chunked =>
                    /\ last'.req.index.kind = "int"
                    /\ last'.req.total.kind = "int"
                    /\ last'.req.offset.kind = "int"
                    /\ last'.req.offset.val >= 0
                    /\ last'.req.index.val + 1 >= last'.req.total.val)
                => last'.res = "created"
          /\ last'.res = "created" =>
                LET id == last'.pk IN
                /\ id \notin DOMAIN tasks
                /\ DOMAIN tasks' = DOMAIN tasks \cup {id}
                /\ tasks'[id].project = last'.req.project_pk
                /\ tasks'[id].pending_action = "IMPORT"
                /\ tasks'[id].status = "RUNNING"
                /\ storage'[id].archive =
                      (IF last'.req.nfiles = 0 THEN NoFile
                       ELSE IF last'.req.chunked
                       THEN File(ChunkResult(last'.req, tmp[last'.req.key]))
                       ELSE File(last'.req.body))
                /\ queue' = Append(queue, id)]_vars

\* the last chunk of two completed an upload and the task was created
C9_Witness ==
    /\ last.op = "import"
    /\ last.res = "created"
    /\ last.req.chunked
    /\ last.req.stale
    /\ tasks[last.pk].status = "RUNNING"
    /\ tasks[last.pk].pending_action = "IMPORT"
    /\ Len(storage[last.pk].archive.data) = 2
    /\ queue = <<last.pk>>

\* where an asset request's path leads
AssetTarget(unsafe_asset_path) == AbsPath(<<>>, AssetsPath(unsafe_asset_path))

\* C10: an asset request for an existing task whose path leaves the task's
\* assets directory, or names no file there, fails with the same not-found
\* error "Asset does not exist" in both cases.
C10_AssetMissingOrOutside ==
    (last.op = "assets" /\ last.pk \in DOMAIN tasks) =>
        LET target == AssetTarget(last.req)
            outside == ~IsPrefix(AssetsRoot, target)
            nofile == ~(/\ target = AssetsRoot \o <<"all.zip">>
                        /\ storage[last.pk].archive.exists)
        IN (outside \/ nofile) =>
               /\ last.res = "NotFound"
               /\ last.detail = "Asset does not exist"

\* a request climbed out of the assets directory to a file that exists
C10_Witness ==
    /\ last.op = "assets"
    /\ last.pk \in DOMAIN tasks
    /\ AssetTarget(last.req) = <<"passwd">>
    /\ last.res = "NotFound"
    /\ last.detail = "Asset does not exist"

C12_CompleteOnLastChunkOnly ==
    [][(/\ last'.op = "import"
        /\ last'.req.chunked
        /\ last'.res \in {"uploaded", "created"}) =>
          IF last'.req.index.val + 1 = last'.req.total.val
          THEN last'.res = "created"
          ELSE /\ last'.res = "uploaded"
               /\ UNCHANGED <<tasks, queue>>]_vars

\* C13: a chunked request whose chunkIndex, byteOffset or totalChunks is not
\* a non-negative integer is rejected as an invalid parameter, and nothing
\* has happened to the session's temp file or to the tasks when it is.
C13_OddParametersRejected ==
    [][(/\ last'.op = "import"
        /\ last'.req.project_pk \in Projects
        /\ last'.req.nfiles = 1 /\ ~last'.req.url
        /\ last'.req.chunked
        /\ \E p \in {last'.req.index, last'.req.total, last'.req.offset} :
              p.kind = "text" \/ (p.kind = "int" /\ p.val < 0)) =>
          /\ last'.res = "ValidationError"
          /\ last'.detail = "Some parameters are not integers"
          /\ UNCHANGED <<tmp, tasks, storage, queue>>]_vars

\* the same chunk of the same session, sent again
SameChunk(a, b) ==
    /\ a.chunked /\ b.chunked
    /\ a.key = b.key
    /\ a.index = b.index
    /\ a.offset = b.offset
    /\ a.total = b.total
    /\ a.body = b.body

\* C14: sending a chunk with chunkIndex > 0 a second time, with the same
\* session id, byte offset and data, leaves the session's temp file as the
\* first delivery left it.
C14_RetryIsIdempotent ==
    [][(/\ last.op = "import" /\ last.res = "uploaded"
        /\ last'.op = "import" /\ last'.res = "uploaded"
        /\ SameChunk(last.req, last'.req)
        /\ last'.req.index.val > 0) =>
          tmp'[last'.req.key] = tmp[last'.req.key]]_vars

\* a request is between naming the temp file and closing it
InWriteSection(w) == writers[w].pc \in {"unlink", "open", "write"}

\* C15: no two chunk requests for the same session are inside the
\* unlink/open/seek/write lines at the same time.
C15_OneWriterPerSession ==
    \A v \in Writers, w \in Writers :
        (v # w /\ InWriteSection(v) /\ InWriteSection(w)) =>
            writers[v].key # writers[w].key

\* C16: chunked uploads with different client session ids, ids that differ
\* only in characters the sanitization removes included, never write to the
\* same temp file: a chunk accepted right after a chunk of another session id
\* goes to another file and leaves the first one's file alone.
C16_SessionsKeepApart ==
    [][(/\ last.op = "import" /\ last.req.chunked /\ last.res = "uploaded"
        /\ last'.op = "import" /\ last'.req.chunked
        /\ last'.res \in {"uploaded", "created"}
        /\ last.req.uuid # last'.req.uuid) =>
          /\ last.req.key # last'.req.key
          /\ tmp'[last.req.key] = tmp[last.req.key]]_vars

\* C17: a full create is all or nothing: when it fails, for too few files or
\* for fields the serializer refuses, no task row exists for it, none of its
\* files is in storage and nothing was put on the queue.
C17_FullCreateAllOrNothing ==
    [][(/\ last'.op = "create"
        /\ ~last'.req.partial
        /\ last'.res # "ok") =>
          UNCHANGED <<tasks, storage, queue>>]_vars

\* C18: when a partial create, full create, commit, upload or import ends
\* with a validation error, the task rows and their fields are what they
\* were before the request and nothing was put on the queue.
C18_ValidationErrorRollsBack ==
    [][(/\ last'.op \in {"create", "commit", "upload", "import"}
        /\ last'.res = "ValidationError") =>
          UNCHANGED <<tasks, queue>>]_vars

\* C19: commit, upload, update, cancel, restart and remove never change the
\* status of an existing task, whatever the request carries; the controller
\* writes status only when it creates a task, RUNNING for an import.
C19_ControllerKeepsStatus ==
    [][last'.op # "worker" =>
          /\ \A id \in DOMAIN tasks \cap DOMAIN tasks' :
                tasks'[id].status = tasks[id].status
          /\ \A id \in DOMAIN tasks' \ DOMAIN tasks :
                /\ last'.op \in {"create", "import"}
                /\ last'.op = "import" => tasks'[id].status = "RUNNING"]_vars

\* a task the worker had marked FAILED was updated and is still FAILED
C19_Witness ==
    /\ last.op = "update"
    /\ last.res = "ok"
    /\ tasks[last.pk].status = "FAILED"

\* C20 as stated: no request ever leaves a task in a project other than the
\* one it was in before.
C20_ProjectNeverChanges ==
    [][\A id \in DOMAIN tasks \cap DOMAIN tasks' :
          tasks'[id].project = tasks[id].project]_vars

\* C20, amended: a task's project changes only by a successful update or
\* upload of that task whose fields name a project, and then to the project
\* named, which for update is one the caller may change; every other request
\* and the worker leave it as it was.
C20_ProjectChangesByReassignOnly ==
    [][\A id \in DOMAIN tasks \cap DOMAIN tasks' :
          tasks'[id].project # tasks[id].project =>
              /\ last'.op \in {"update", "upload"}
              /\ last'.res = "ok"
              /\ last'.pk = id
              /\ last'.op = "update" =>
                    /\ tasks'[id].project \in Projects
                    /\ \E r \in TaskRequests, data \in UpdateData :
                          /\ Update(r[1], r[2], data)
                          /\ data.project = tasks'[id].project
              /\ last'.op = "upload" =>
                    \E r \in TaskRequests, data \in UploadData, nfiles \in 0..1 :
                        /\ Upload(r[1], r[2], data, nfiles)
                        /\ data.project = tasks'[id].project]_vars

\* a task created in p1 was moved to p2 by an update
C20_Witness ==
    /\ last.op = "update"
    /\ last.res = "ok"
    /\ tasks[last.pk].project = "p2"
    /\ tasks[last.pk].session = <<>>
    /\ tasks[last.pk].images_count = 2

\* C21: a create that takes the placeholder branch and succeeds adds a task
\* with partial = true and pending action RESIZE when a resize target was
\* given and NONE otherwise, and puts nothing on the queue.
C21_PartialCreateIsPartial ==
    [][(/\ last'.op = "create"
        /\ last'.req.partial
        /\ last'.res = "ok") =>
          /\ last'.pk \notin DOMAIN tasks
          /\ DOMAIN tasks' = DOMAIN tasks \cup {last'.pk}
          /\ tasks'[last'.pk].partial
          /\ tasks'[last'.pk].pending_action \in {"RESIZE", "NONE"}
          /\ UNCHANGED queue]_vars

\* C22: commit on a task of the named project that has at least 1 image
\* saves partial = false with the image count and the size recomputed from
\* storage, changes no other task, and puts the task's id on the queue once,
\* in the same step that saves the row.
C22_CommitSavesAndEnqueues ==
    [][last'.op = "commit" =>
       \A r \in TaskRequests :
          (/\ r[1] \in DOMAIN tasks
           /\ tasks[r[1]].project = r[2]
           /\ r[2] \in Projects
           /\ storage[r[1]].images >= 1
           /\ Commit(r[1], r[2])) =>
              /\ last'.res = "ok"
              /\ DOMAIN tasks' = DOMAIN tasks
              /\ ~tasks'[r[1]].partial
              /\ tasks'[r[1]].images_count = storage[r[1]].images
              /\ tasks'[r[1]].size =
                    storage[r[1]].images + Len(storage[r[1]].archive.data)
              /\ \A id \in DOMAIN tasks \ {r[1]} : tasks'[id] = tasks[id]
              /\ queue' = Append(queue, r[1])]_vars

\* a partial task with an uploaded image was committed
C22_Witness ==
    /\ last.op = "commit"
    /\ last.res = "ok"
    /\ last.req = <<TRUE>>
    /\ ~tasks[last.pk].partial
    /\ tasks[last.pk].images_count >= 1
    /\ tasks[last.pk].size = tasks[last.pk].images_count
    /\ queue = <<last.pk>>

\* C23 as stated: upload and duplicate, successful or not, leave the queue
\* as it was, and upload leaves every task's partial flag and pending action
\* as they were.
C23_UploadKeepsPartial ==
    [][last'.op \in {"upload", "duplicate"} =>
          /\ UNCHANGED queue
          /\ last'.op = "upload" =>
                \A id \in DOMAIN tasks :
                    /\ tasks'[id].partial = tasks[id].partial
                    /\ tasks'[id].pending_action = tasks[id].pending_action]_vars

\* C23, amended: upload and duplicate, successful or not, leave the queue as
\* it was; upload leaves every task's pending action as it was, and the
\* partial flag too unless the fields sent with the files carry a partial
\* value, which is then the one saved.
C23_UploadAndDuplicateKeepQueue ==
    [][last'.op \in {"upload", "duplicate"} =>
          /\ UNCHANGED queue
          /\ last'.enq = 0
          /\ last'.op = "upload" =>
                \A id \in DOMAIN tasks :
                    /\ id \in DOMAIN tasks'
                    /\ tasks'[id].pending_action = tasks[id].pending_action
                    /\ tasks'[id].partial # tasks[id].partial =>
                          \E r \in TaskRequests, data \in UploadData, nfiles \in 0..1 :
                              /\ Upload(r[1], r[2], data, nfiles)
                              /\ r[1] = id
                              /\ data.partial # Absent
                              /\ tasks'[id].partial = (data.partial = "true")]_vars

\* files were uploaded to the copy of a partial task; nothing is queued
C23_Witness ==
    /\ last.op = "upload"
    /\ last.res = "ok"
    /\ Cardinality(DOMAIN tasks) = 2
    /\ last.pk = nextId - 1
    /\ tasks[last.pk].partial
    /\ tasks[last.pk].images_count >= 1
    /\ queue = <<>>

\* C24: an update of a task of the named project, with fields the serializer
\* accepts and, when it names a project, one the caller may change, saves the
\* fields and puts the task's id on the queue once in the same step, whatever
\* the fields are; an update that fails because the task is absent, the
\* target project is not permitted or the fields are refused puts nothing on
\* the queue and changes no task.
C24_UpdateAlwaysEnqueues ==
    [][last'.op = "update" =>
       \A r \in TaskRequests, data \in UpdateData :
          Update(r[1], r[2], data) =>
             LET found == /\ r[1] \in DOMAIN tasks
                          /\ tasks[r[1]].project = r[2]
                          /\ r[2] \in Projects
                 allowed == data.project \in Projects \cup {Absent}
             IN IF found /\ allowed /\ data.valid
                THEN /\ last'.res = "ok"
                     /\ data.project # Absent => tasks'[r[1]].project = data.project
                     /\ data.partial # Absent =>
                           tasks'[r[1]].partial = (data.partial = "true")
                     /\ queue' = Append(queue, r[1])
                ELSE /\ last'.res \in {"NotFound", "PermissionDenied", "ValidationError"}
                     /\ last'.enq = 0
                     /\ UNCHANGED <<queue, tasks>>]_vars

\* a task the worker had finished was updated and is on the queue again
C24_Witness ==
    /\ last.op = "update"
    /\ last.res = "ok"
    /\ tasks[last.pk].status = "COMPLETED"
    /\ tasks[last.pk].project = "p1"
    /\ queue = <<last.pk>>

\* C25: a chunked import creates its task only when every chunk 0 ..
\* totalChunks - 1 of the session has been written: for a session whose
\* deliveries so far were chunks of the file, each once, a task was created
\* only if all of them have been delivered.
C25_FinalizeAfterAllChunks ==
    (/\ last.op = "import"
     /\ last.res = "created"
     /\ last.req.chunked
     /\ sess[last.req.key].ok) =>
        sess[last.req.key].sent = 0..(last.req.total.val - 1)

\* C26: when the worker takes a task id off the queue that a full create or
\* an import put there, the transaction that wrote the task's row has been
\* committed: the worker never has just dequeued the id of a transaction
\* that is still open.
C26_WorkerSeesCommittedRow ==
    (last.op = "worker" /\ txn.pc # "none") => last.pk # txn.id

====
